---- MODULE Spec2Model ----
(***************************************************************************)
(* A model of memorize.core: the memoizing wrapper built by                *)
(* _memorize_wrapper (the three wrappers chosen by maxsize, the dict and   *)
(* the circular doubly linked list of the bounded cache, the expiration    *)
(* timers, the semaphore of the rate limit and its deferred releases) and  *)
(* the key construction of _make_key.                                      *)
(*                                                                         *)
(* Threads call the wrapper concurrently.  A region of the code run under  *)
(* the RLock is one step; code that runs without the lock (the wrappers of *)
(* maxsize == 0 and maxsize is None) is one step per shared access, so the *)
(* read and the write of "hits += 1" and "misses += 1" are two steps.      *)
(* Time passes in ticks: a threading.Timer started with interval i fires   *)
(* once i ticks have passed, at any moment from then on.                   *)
(*                                                                         *)
(* The wrapped callable is opaque: an invocation either raises or returns  *)
(* a value no other invocation returns (the serial number of the call).    *)
(***************************************************************************)
EXTENDS Integers, Sequences, FiniteSets, TLC

\* ------------------------------------------------------------------ bounds
MaxCalls == 3     \* calls of the wrapper and of cache_clear in one behaviour
MaxSize == 2      \* largest positive maxsize
Calls == 2        \* the calls argument of a rate-limited wrapper
Period == 2       \* the period argument, in ticks
Timeout == 2      \* the timeout argument, in ticks

Threads == {"t1", "t2"}

\* maxsize is None
Unset == -1

\* --------------------------------------------------------------- arguments
\* A Python value: its runtime type and what it compares equal by.
IntV(s) == [ty |-> "int", v |-> s]
FloatV(s) == [ty |-> "float", v |-> s]
StrV(s) == [ty |-> "str", v |-> s]
ListV(s) == [ty |-> "list", v |-> s]

\* f(*args, **kwds): kwds is the sequence of <<name, value>> in call order.
CallOf(a, k) == [args |-> a, kwds |-> k]

A == CallOf(<<IntV("1")>>, <<>>)
B == CallOf(<<IntV("2")>>, <<>>)
C == CallOf(<<IntV("3")>>, <<>>)
D == CallOf(<<IntV("4")>>, <<>>)
U == CallOf(<<ListV("l")>>, <<>>)

\* f(3.0); f(1, 3) and f(1, 3.0); f(x=3) and f(x=3.0)
F3 == CallOf(<<FloatV("3")>>, <<>>)
I13 == CallOf(<<IntV("1"), IntV("3")>>, <<>>)
F13 == CallOf(<<IntV("1"), FloatV("3")>>, <<>>)
Kx3 == CallOf(<<>>, <<<<"x", IntV("3")>>>>)
Kxf3 == CallOf(<<>>, <<<<"x", FloatV("3")>>>>)

\* f(x=1, y=2) and f(y=2, x=1); f(1, "a"), f(1, x="a") and f(1, "x", "a")
Kxy == CallOf(<<>>, <<<<"x", IntV("1")>>, <<"y", IntV("2")>>>>)
Kyx == CallOf(<<>>, <<<<"y", IntV("2")>>, <<"x", IntV("1")>>>>)
P1a == CallOf(<<IntV("1"), StrV("a")>>, <<>>)
K1a == CallOf(<<IntV("1")>>, <<<<"x", StrV("a")>>>>)
P1xa == CallOf(<<IntV("1"), StrV("x"), StrV("a")>>, <<>>)

\* core.py:35
fasttypes == {"int", "str", "frozenset", "NoneType"}

\* hash() raises TypeError on these
Unhashable == {"list", "dict", "set"}

\* An element of the key tuple, by what == and hash() see of it: numbers of
\* equal value are one element whatever their type.
Elem(x) == IF x.ty \in {"int", "float", "bool"} THEN <<"num", x.v>> ELSE <<x.ty, x.v>>

\* core.py:34, an object() equal to nothing else
kwd_mark == <<"mark", "kwd_mark">>

TypeOf(x) == <<"type", x.ty>>

RECURSIVE Items(_)
Items(kwds) ==
    IF kwds = <<>> THEN <<>>
    ELSE <<Elem(StrV(Head(kwds)[1])), Elem(Head(kwds)[2])>> \o Items(Tail(kwds))

\* A key that records the types of the positional arguments only
KeyTupleArgTypes(args, kwds, typed) ==
    LET key0 == [i \in 1..Len(args) |-> Elem(args[i])]
        key1 == IF kwds # <<>> THEN key0 \o <<kwd_mark>> \o Items(kwds) ELSE key0
    IN  IF typed THEN key1 \o [i \in 1..Len(args) |-> TypeOf(args[i])] ELSE key1

\* A key without the mark between the positional and the keyword arguments
KeyTupleNoMark(args, kwds, typed) ==
    LET key1 == [i \in 1..Len(args) |-> Elem(args[i])] \o Items(kwds)
    IN  IF typed
        THEN key1 \o [i \in 1..Len(args) |-> TypeOf(args[i])]
                  \o [i \in 1..Len(kwds) |-> TypeOf(kwds[i][2])]
        ELSE key1

\* core.py:48-56: the tuple of the arguments, the mark and the keyword items in
\* call order, and with typed the types of all of them
KeyTuple(args, kwds, typed) ==
    LET key0 == [i \in 1..Len(args) |-> Elem(args[i])]
        key1 == IF kwds # <<>> THEN key0 \o <<kwd_mark>> \o Items(kwds) ELSE key0
    IN  IF typed
        THEN key1 \o [i \in 1..Len(args) |-> TypeOf(args[i])]
                  \o (IF kwds # <<>> THEN [i \in 1..Len(kwds) |-> TypeOf(kwds[i][2])] ELSE <<>>)
        ELSE key1

AllValues(args, kwds) == {args[i] : i \in 1..Len(args)} \cup {kwds[i][2] : i \in 1..Len(kwds)}

\* The key of a call: the bare argument (raw) or a _HashedSeq of the tuple;
\* err when hashing the tuple raises TypeError.
make_key(args, kwds, typed) ==
    LET key == KeyTuple(args, kwds, typed)
        bad == \E x \in AllValues(args, kwds) : x.ty \in Unhashable
    IN  IF ~typed /\ Len(key) = 1 /\ args[1].ty \in fasttypes
        THEN [raw |-> TRUE, elems |-> key, err |-> FALSE]
        ELSE [raw |-> FALSE, elems |-> IF bad THEN <<>> ELSE key, err |-> bad]

\* The KEY field of a link that holds None
NoKey == [raw |-> TRUE, elems |-> <<>>, err |-> FALSE]

\* None as a result
None == 0

\* ------------------------------------------------------------------- state
VARIABLES
    maxsize,    \* the maxsize argument: Unset, 0 or a positive size
    typed,      \* the typed argument
    timeout,    \* the timeout argument in ticks, 0 when None
    calls,      \* the calls argument, Unset when None
    period,     \* the period argument in ticks, Unset when None
    aware,      \* the aware argument
    inputs,     \* the calls the callers make
    budget,     \* the number of calls the callers make, cache_clear included
    made,       \* what memorize(...)(user_function) gave: "wrapper" or the error
    cache,      \* the dict: key -> link (bounded) or key -> result (unbounded)
    links,      \* the links of the bounded cache: id -> [prev, next, key, result]
    root,       \* the link that is the root of the circular list
    full,       \* the flag full
    hits,
    misses,
    permits,    \* the value of the semaphore
    timers,     \* the started threading.Timer objects that have not fired; gone is
                \* history: the entry of the timer was evicted or cleared
    started,    \* the number of calls started, of the wrapper and of cache_clear
    th,         \* per thread: where it is in the wrapper, and its locals
    ret,        \* per thread: how its last call ended
    clearing,   \* cache_clear is between its cache.clear() and its counter reset
    recency,    \* history: the cached keys, least recently accessed first
    expired,    \* history: the keys whose entry its own timer removed, not stored since
    admits,     \* history: admits[i] permits were acquired i - 1 ticks ago
    lock        \* who holds the RLock: a thread, "clear" (cache_clear) or "free"

config == <<maxsize, typed, timeout, calls, period, aware, inputs, budget, made>>
store == <<cache, links, root, full>>
vars == <<maxsize, typed, timeout, calls, period, aware, inputs, budget, made, cache, links, root,
          full, hits, misses, permits, timers, started, th, ret, clearing,
          recency, expired, admits, lock>>

\* bool(x) of an argument that is None or a number
Truthy(x) == x # Unset /\ x # 0

\* core.py:127
rated == Truthy(calls) /\ Truthy(period)

\* core.py:90-108: memorize(...) checks its arguments (here None or an int,
\* which pass the isinstance tests) and decorates
memorize(cl, pd) == IF Truthy(cl) # Truthy(pd) THEN "ValueError" ELSE "wrapper"

\* A wrapper that takes maxsize = None for a size
BoundedAlways == maxsize # 0

\* core.py:131, 143, 168: the wrapper with the dict, the list and the lock
Bounded == maxsize # Unset /\ maxsize # 0

\* core.py:117
Link(p, n, k, r) == [prev |-> p, next |-> n, key |-> k, result |-> r]

\* core.py:125-126: the list is the root alone, linked to itself
EmptyList(r) == (r :> Link(r, r, NoKey, None))

IdleTh == [pc |-> "idle", id |-> 0, arg |-> A, tmp |-> 0, res |-> None]
NoRet == [kind |-> "none", val |-> None]

\* The state _memorize_wrapper builds, core.py:119-129
InitState ==
    /\ cache = <<>>
    /\ root = 0
    /\ links = EmptyList(0)
    /\ full = FALSE
    /\ hits = 0
    /\ misses = 0
    /\ made = memorize(calls, period)
    /\ permits = IF rated THEN calls ELSE 0
    /\ timers = {}
    /\ started = 0
    /\ th = [t \in Threads |-> IdleTh]
    /\ ret = [t \in Threads |-> NoRet]
    /\ clearing = FALSE
    /\ recency = <<>>
    /\ expired = {}
    /\ admits = [i \in 1..period |-> 0]
    /\ lock = "free"

\* ----------------------------------------------------------------- helpers
Key(t) == make_key(th[t].arg.args, th[t].arg.kwds, typed)

cache_len == Cardinality(DOMAIN cache)

\* cache[k] = v
Put(c, k, v) == [x \in DOMAIN c \cup {k} |-> IF x = k THEN v ELSE c[x]]

\* del cache[k], cache.pop(k, None)
Del(c, k) == [x \in DOMAIN c \ {k} |-> c[x]]

RECURSIVE Without(_, _)
Without(s, k) ==
    IF s = <<>> THEN <<>>
    ELSE IF Head(s) = k THEN Without(Tail(s), k)
    ELSE <<Head(s)>> \o Without(Tail(s), k)

\* The history of accesses after an access to k
Touch(s, k) == Without(s, k) \o <<k>>

\* core.py:242-245: a daemon Timer that calls fn after interval
start_timer(interval, fn, k, id) ==
    [fn |-> fn, key |-> k, id |-> id, left |-> interval, gone |-> FALSE]

\* A release one tick short of the period
ReleaseTimerEarly(t) == {start_timer(period - 1, "release", NoKey, th[t].id)}

\* core.py:140, 155, 160, 188, 193: _start_timer(period, semaphore.release)
ReleaseTimer(t) == {start_timer(period, "release", NoKey, th[t].id)}

\* core.py:163-164, 223-224, 230-231: if timeout: _start_timer(timeout, _execute_timeout, [key])
ExpireTimer(t) ==
    IF timeout # 0 THEN {start_timer(timeout, "execute_timeout", Key(t), th[t].id)} ELSE {}

\* A hit that restarts the expiration of its entry
HitTimersRefresh(t) == (IF rated /\ ~aware THEN ReleaseTimer(t) ELSE {}) \cup ExpireTimer(t)

\* A hit that schedules a release whether or not it acquired a permit
HitTimersAlways(t) == IF rated THEN ReleaseTimer(t) ELSE {}

\* core.py:154-155, 187-188: what a hit schedules
HitTimers(t) == IF rated /\ ~aware THEN ReleaseTimer(t) ELSE {}

\* A wrapper that ignores aware
PreAcquireAlways == rated

\* core.py:134, 147, 171: the wrapper acquires a permit before anything else
PreAcquire == rated /\ (maxsize = 0 \/ ~aware)

\* The call that stored the entry of key k: its result is the call's number
InstOf(k) == IF Bounded THEN links[cache[k]].result ELSE cache[k]

\* The timer tm was started for the entry now in the cache
Own(tm) == tm.key \in DOMAIN cache /\ InstOf(tm.key) = tm.id

\* The timers, once the entries of the keys ks are evicted or cleared
MarkGone(ks) ==
    {IF tm.fn = "execute_timeout" /\ tm.key \in ks /\ Own(tm)
     THEN [tm EXCEPT !.gone = TRUE] ELSE tm : tm \in timers}

\* The capacity test with > for >=
IsFullLate(len) == len > maxsize

\* core.py:234
IsFull(len) == len >= maxsize

\* with lock: the RLock is free or this thread holds it already
CanLock(t) == lock \in {"free", t}

\* A lookup whose with-block extends over the rest of the miss
LockHeldAtMiss(t) == t

\* core.py:175-190: the with-block of the lookup ends before the permit of an
\* aware wrapper is acquired and the callable is invoked
LockAtMiss(t) == "free"

\* An exception leaves the with-blocks of the thread, if it is in any
Unwound(t) == IF lock = t THEN "free" ELSE lock

\* A call returns or raises: the thread is idle again
Return(t, kind, val) ==
    /\ th' = [th EXCEPT ![t] = IdleTh]
    /\ ret' = [ret EXCEPT ![t] = [kind |-> kind, val |-> val]]

Goto(t, pc) == th' = [th EXCEPT ![t].pc = pc]

\* semaphore.acquire(), once a permit is there
Acquired ==
    /\ permits > 0
    /\ permits' = permits - 1
    /\ admits' = [admits EXCEPT ![1] = @ + 1]

\* --------------------------------------------------------------- the list
\* A hit that leaves the link where it is
LeaveInPlace(ls, r, link) == ls

\* A hit that links the entry next to the root on the side of the oldest
MoveToOldest(ls, r, link) ==
    LET link_prev == ls[link].prev
        link_next == ls[link].next
        l1 == [ls EXCEPT ![link_prev].next = link_next]
        l2 == [l1 EXCEPT ![link_next].prev = link_prev]
        first == l2[r].next
        l3 == [l2 EXCEPT ![first].prev = link]
        l4 == [l3 EXCEPT ![r].next = link]
        l5 == [l4 EXCEPT ![link].next = first]
    IN  [l5 EXCEPT ![link].prev = r]

\* core.py:179-185: move the link to the front of the circular queue
MoveToFront(ls, r, link) ==
    LET link_prev == ls[link].prev
        link_next == ls[link].next
        l1 == [ls EXCEPT ![link_prev].next = link_next]
        l2 == [l1 EXCEPT ![link_next].prev = link_prev]
        last == l2[r].prev
        l3 == [l2 EXCEPT ![last].next = link]
        l4 == [l3 EXCEPT ![r].prev = link]
        l5 == [l4 EXCEPT ![link].prev = last]
    IN  [l5 EXCEPT ![link].next = r]

\* core.py:227-229: a new link at the front of the queue
NewLink(ls, r, link, k, result) ==
    LET last == ls[r].prev
        l1 == (link :> Link(last, r, k, result)) @@ ls
        l2 == [l1 EXCEPT ![last].next = link]
    IN  [l2 EXCEPT ![r].prev = link]

\* core.py:204-206: the old root stores the new key and result
FillRoot(ls, r, k, result) == [ls EXCEPT ![r].key = k, ![r].result = result]

\* core.py:213: the oldest link is the new root
NewRoot(ls, r) == ls[r].next

\* core.py:216
EmptyRoot(ls, r) == [ls EXCEPT ![r].key = NoKey, ![r].result = None]

\* ------------------------------------------------------------ the wrapper
\* wrapper(*args, **kwds) is called: core.py:132, 145, 169
Call(t) ==
    /\ made = "wrapper"
    /\ th[t].pc = "idle"
    /\ started < budget
    /\ \E c \in inputs :
        th' = [th EXCEPT ![t] =
                 [pc |-> IF PreAcquire THEN "acquire"
                         ELSE IF maxsize = 0 THEN "call" ELSE "lookup",
                  id |-> started + 1, arg |-> c, tmp |-> 0, res |-> None]]
    /\ started' = started + 1
    /\ ret' = [ret EXCEPT ![t] = NoRet]
    /\ UNCHANGED <<config, lock, store, hits, misses, permits, timers, clearing,
                   recency, expired, admits>>

\* core.py:134-135, 147-148, 171-172: semaphore.acquire() before the lookup
Acquire(t) ==
    /\ th[t].pc = "acquire"
    /\ Acquired
    /\ Goto(t, IF maxsize = 0 THEN "call" ELSE "lookup")
    /\ UNCHANGED <<config, lock, store, hits, misses, timers, started, ret, clearing,
                   recency, expired>>

\* A miss that starts the expiration timer before the callable is invoked
MissNextExpire(t) ==
    IF rated /\ aware
    THEN Goto(t, "acquire2") /\ timers' = timers \cup ExpireTimer(t)
    ELSE Goto(t, "call")
         /\ timers' = timers \cup (IF rated THEN ReleaseTimer(t) ELSE {}) \cup ExpireTimer(t)

\* After a miss, core.py:157-160 and 190-193, for a caller that holds its permit
\* already or needs none: the release is scheduled and the callable is next.
MissNext(t) ==
    IF rated /\ aware
    THEN Goto(t, "acquire2") /\ timers' = timers
    ELSE Goto(t, "call") /\ timers' = timers \cup (IF rated THEN ReleaseTimer(t) ELSE {})

\* core.py:150-152 and 157-160: the lookup of the unbounded cache
LookupUnbounded(t) ==
    IF Key(t) \in DOMAIN cache
    THEN /\ th' = [th EXCEPT ![t].pc = "hit", ![t].res = cache[Key(t)]]
         /\ UNCHANGED <<timers, ret>>
    ELSE MissNext(t) /\ ret' = ret

\* core.py:175-193: the lookup of the bounded cache, under the lock
LookupBounded(t) ==
    /\ CanLock(t)
    /\ lock' = IF Key(t) \in DOMAIN cache THEN "free" ELSE LockAtMiss(t)
    /\ IF Key(t) \in DOMAIN cache
       THEN /\ links' = MoveToFront(links, root, cache[Key(t)])
            /\ hits' = hits + 1
            /\ recency' = Touch(recency, Key(t))
            /\ timers' = timers \cup HitTimers(t)
            /\ Return(t, "value", links[cache[Key(t)]].result)
       ELSE /\ MissNext(t)
            /\ UNCHANGED <<links, hits, recency, ret>>

\* core.py:150 and 174: make_key, and the lookup when it returns a key
Lookup(t) ==
    /\ th[t].pc = "lookup"
    /\ IF Key(t).err
       THEN Return(t, "TypeError", None) /\ UNCHANGED <<links, hits, recency, timers, lock>>
       ELSE IF Bounded
            THEN LookupBounded(t)
            ELSE LookupUnbounded(t) /\ UNCHANGED <<links, hits, recency, lock>>
    /\ UNCHANGED <<config, cache, root, full, misses, permits, started, clearing,
                   expired, admits>>

\* core.py:153, the read of hits += 1
HitRead(t) ==
    /\ th[t].pc = "hit"
    /\ th' = [th EXCEPT ![t].pc = "hit2", ![t].tmp = hits]
    /\ UNCHANGED <<config, lock, store, hits, misses, permits, timers, started, ret,
                   clearing, recency, expired, admits>>

\* core.py:153-156, the write of hits += 1, the release and the return
HitWrite(t) ==
    /\ th[t].pc = "hit2"
    /\ hits' = th[t].tmp + 1
    /\ timers' = timers \cup HitTimers(t)
    /\ Return(t, "value", th[t].res)
    /\ UNCHANGED <<config, lock, store, misses, permits, started, clearing, recency, expired,
                   admits>>

\* core.py:157-160, 190-193: semaphore.acquire() of an aware wrapper, on a miss
AcquireAware(t) ==
    /\ th[t].pc = "acquire2"
    /\ Acquired
    /\ timers' = timers \cup ReleaseTimer(t)
    /\ Goto(t, "call")
    /\ UNCHANGED <<config, lock, store, hits, misses, started, ret, clearing, recency, expired>>

\* core.py:137, 161, 194: user_function returns
UserReturn(t) ==
    /\ th[t].pc = "call"
    /\ th' = [th EXCEPT ![t].pc = IF maxsize = 0 THEN "miss" ELSE "store",
                        ![t].res = th[t].id]
    /\ UNCHANGED <<config, lock, store, hits, misses, permits, timers, started, ret,
                   clearing, recency, expired, admits>>

\* core.py:137, 161, 194: user_function raises
UserRaise(t) ==
    /\ th[t].pc = "call"
    /\ Return(t, "raised", None)
    /\ lock' = Unwound(t)
    /\ UNCHANGED <<config, store, hits, misses, permits, timers, started,
                   clearing, recency, expired, admits>>

\* core.py:162-164: cache[key] = result, and the expiration timer
StoreUnbounded(t) ==
    /\ cache' = Put(cache, Key(t), th[t].res)
    /\ timers' = timers \cup ExpireTimer(t)
    /\ Goto(t, "miss")
    /\ expired' = expired \ {Key(t)}
    /\ UNCHANGED <<links, root, full, misses, recency, ret>>

\* core.py:196-201: the key was added while the lock was released
StorePresent(t) ==
    /\ misses' = misses + 1
    /\ Return(t, "value", th[t].res)
    /\ UNCHANGED <<store, timers, recency, expired>>

\* core.py:202-224: the cache is full, the oldest link is evicted and the old
\* root holds the new entry.  del cache[oldkey] raises KeyError when oldkey is
\* not in the dict, after the list was changed.
StoreFull(t) ==
    LET oldroot == root
        l1 == FillRoot(links, oldroot, Key(t), th[t].res)
        newroot == NewRoot(l1, oldroot)
        oldkey == l1[newroot].key
        l2 == EmptyRoot(l1, newroot)
    IN  /\ links' = l2
        /\ root' = newroot
        /\ full' = full
        /\ IF oldkey \in DOMAIN cache
           THEN /\ cache' = Put(Del(cache, oldkey), Key(t), oldroot)
                /\ timers' = MarkGone({oldkey}) \cup ExpireTimer(t)
                /\ misses' = misses + 1
                /\ recency' = Touch(Without(recency, oldkey), Key(t))
                /\ expired' = expired \ {Key(t)}
                /\ Return(t, "value", th[t].res)
           ELSE /\ Return(t, "KeyError", None)
                /\ UNCHANGED <<cache, timers, misses, recency, expired>>

\* core.py:225-235: a new link at the front of the queue
StoreNew(t) ==
    /\ links' = NewLink(links, root, th[t].id, Key(t), th[t].res)
    /\ cache' = Put(cache, Key(t), th[t].id)
    /\ timers' = timers \cup ExpireTimer(t)
    /\ full' = IsFull(Cardinality(DOMAIN cache'))
    /\ misses' = misses + 1
    /\ recency' = Touch(recency, Key(t))
    /\ expired' = expired \ {Key(t)}
    /\ root' = root
    /\ Return(t, "value", th[t].res)

\* core.py:162-164 and 195-236: the result is stored
Store(t) ==
    /\ th[t].pc = "store"
    /\ IF ~Bounded THEN StoreUnbounded(t) /\ lock' = lock
       ELSE /\ CanLock(t)
            /\ lock' = "free"
            /\ IF Key(t) \in DOMAIN cache THEN StorePresent(t)
               ELSE IF full THEN StoreFull(t)
               ELSE StoreNew(t)
    /\ UNCHANGED <<config, hits, permits, started, clearing, admits>>

\* core.py:138 and 165, the read of misses += 1
MissRead(t) ==
    /\ th[t].pc = "miss"
    /\ th' = [th EXCEPT ![t].pc = "miss2", ![t].tmp = misses]
    /\ UNCHANGED <<config, lock, store, hits, misses, permits, timers, started, ret,
                   clearing, recency, expired, admits>>

\* core.py:138-141 and 165-166, the write of misses += 1 and the return; the
\* wrapper of maxsize == 0 schedules its release here
MissWrite(t) ==
    /\ th[t].pc = "miss2"
    /\ misses' = th[t].tmp + 1
    /\ timers' = timers \cup (IF rated /\ maxsize = 0 THEN ReleaseTimer(t) ELSE {})
    /\ Return(t, "value", th[t].res)
    /\ UNCHANGED <<config, lock, store, hits, permits, started, clearing, recency, expired,
                   admits>>

\* ------------------------------------------------------ timers and the clock
Due(tm) == tm.left = 0

\* core.py:238-240: _execute_timeout(key), under the lock
execute_timeout(tm) ==
    /\ tm \in timers
    /\ tm.fn = "execute_timeout"
    /\ Due(tm)
    /\ lock = "free"
    /\ cache' = Del(cache, tm.key)
    /\ timers' = timers \ {tm}
    /\ recency' = Without(recency, tm.key)
    /\ expired' = IF Own(tm) THEN expired \cup {tm.key} ELSE expired
    /\ UNCHANGED <<config, lock, links, root, full, hits, misses, permits, started, th,
                   ret, clearing, admits>>

\* semaphore.release(), called by the timer of core.py:243
release(tm) ==
    /\ tm \in timers
    /\ tm.fn = "release"
    /\ Due(tm)
    /\ permits' = permits + 1
    /\ timers' = timers \ {tm}
    /\ UNCHANGED <<config, lock, store, hits, misses, started, th, ret, clearing,
                   recency, expired, admits>>

ExpireFire == \E tm \in timers : execute_timeout(tm)

ReleaseFire == \E tm \in timers : release(tm)

\* A tick of the clock
Tick ==
    /\ timers' = {[tm EXCEPT !.left = IF @ > 0 THEN @ - 1 ELSE 0] : tm \in timers}
    /\ admits' = [i \in 1..Len(admits) |-> IF i = 1 THEN 0 ELSE admits[i - 1]]
    /\ UNCHANGED <<config, lock, store, hits, misses, permits, started, th, ret, clearing,
                   recency, expired>>

\* ------------------------------------------------------------- cache_clear
\* A cache_clear that leaves the flag as it is
ClearedFullKept == full

\* core.py:259: full = False
ClearedFull == FALSE

\* core.py:255-257: cache.clear() and the reset of the root.  The bounded
\* wrapper runs under the same lock, so for it cache_clear is one step.
ClearBegin ==
    /\ made = "wrapper"
    /\ ~clearing
    /\ lock = "free"
    /\ started < budget
    /\ started' = started + 1
    /\ cache' = <<>>
    /\ links' = EmptyList(root)
    /\ recency' = <<>>
    /\ timers' = MarkGone(DOMAIN cache)
    /\ IF Bounded
       THEN hits' = 0 /\ misses' = 0 /\ full' = ClearedFull /\ clearing' = FALSE /\ lock' = lock
       ELSE clearing' = TRUE /\ lock' = "clear" /\ UNCHANGED <<hits, misses, full>>
    /\ UNCHANGED <<config, root, permits, th, ret, expired, admits>>

\* core.py:258-259: hits = misses = 0, full = False
ClearEnd ==
    /\ clearing
    /\ hits' = 0
    /\ misses' = 0
    /\ full' = ClearedFull
    /\ clearing' = FALSE
    /\ lock' = "free"
    /\ UNCHANGED <<config, cache, links, root, permits, timers, started, th, ret,
                   recency, expired, admits>>

\* core.py:247-250
cache_info == [hits |-> hits, misses |-> misses, maxsize |-> maxsize, currsize |-> cache_len]

\* ----------------------------------------------------------- specifications
Step(t) ==
    \/ Call(t)
    \/ Lookup(t)
    \/ UserReturn(t)
    \/ UserRaise(t)
    \/ Store(t)

Unlocked(t) ==
    \/ HitRead(t)
    \/ HitWrite(t)
    \/ MissRead(t)
    \/ MissWrite(t)

Limited(t) ==
    \/ Acquire(t)
    \/ AcquireAware(t)

Next ==
    \/ \E t \in Threads : Step(t) \/ Unlocked(t) \/ Limited(t)
    \/ ExpireFire
    \/ ReleaseFire
    \/ Tick
    \/ ClearBegin
    \/ ClearEnd

\* Every configuration memorize() accepts, within the bounds
Init ==
    /\ maxsize \in {Unset, 0} \cup 1..MaxSize
    /\ typed = FALSE
    /\ timeout \in {0, Timeout}
    /\ calls \in {Unset, Calls}
    /\ period = IF calls = Unset THEN Unset ELSE Period
    /\ aware \in BOOLEAN
    /\ inputs = {A, B, U}
    /\ budget = MaxCalls
    /\ InitState

Spec == Init /\ [][Next]_vars

\* The bounded cache alone: no expiration, no rate limit, no cache_clear
InitLRU ==
    /\ maxsize \in 1..MaxSize
    /\ typed = FALSE
    /\ timeout = 0
    /\ calls = Unset
    /\ period = Unset
    /\ aware = FALSE
    /\ inputs = {A, B, C}
    /\ budget = MaxCalls + 2
    /\ InitState

NextLRU == \E t \in Threads : Step(t)

SpecLRU == InitLRU /\ [][NextLRU]_vars

\* The bounded cache with expiration and cache_clear
InitCap ==
    /\ maxsize \in 1..MaxSize
    /\ typed = FALSE
    /\ timeout = Timeout
    /\ calls = Unset
    /\ period = Unset
    /\ aware = FALSE
    /\ inputs = {A, B, C}
    /\ budget = MaxCalls
    /\ InitState

NextCap ==
    \/ \E t \in Threads : Step(t)
    \/ ExpireFire
    \/ Tick
    \/ ClearBegin

SpecCap == InitCap /\ [][NextCap]_vars

\* Both caching wrappers with expiration and cache_clear, no rate limit
InitTTL ==
    /\ maxsize \in {Unset} \cup 1..MaxSize
    /\ typed = FALSE
    /\ timeout = Timeout
    /\ calls = Unset
    /\ period = Unset
    /\ aware = FALSE
    /\ inputs = {A, B}
    /\ budget = MaxCalls
    /\ InitState

NextTTL ==
    \/ \E t \in Threads : Step(t) \/ Unlocked(t)
    \/ ExpireFire
    \/ Tick
    \/ ClearBegin
    \/ ClearEnd

SpecTTL == InitTTL /\ [][NextTTL]_vars

\* The three wrappers with the rate limit, aware or not, no expiration
InitRate ==
    /\ maxsize \in {Unset, 0, MaxSize}
    /\ typed = FALSE
    /\ timeout = 0
    /\ calls = Calls
    /\ period = Period
    /\ aware \in BOOLEAN
    /\ inputs = {A, U}
    /\ budget = MaxCalls
    /\ InitState

NextRate ==
    \/ \E t \in Threads : Step(t) \/ Unlocked(t) \/ Limited(t)
    \/ ReleaseFire
    \/ Tick

SpecRate == InitRate /\ [][NextRate]_vars

\* The two caching wrappers, typed or not, called with arguments that differ
\* in type, in keyword order or in how a value is passed
KeyInputs == {{C, F3}, {I13, F13}, {Kx3, Kxf3}, {Kxy, Kyx}, {P1a, K1a, P1xa}}

InitKeys ==
    /\ maxsize \in {Unset, MaxSize}
    /\ typed \in BOOLEAN
    /\ timeout = 0
    /\ calls = Unset
    /\ period = Unset
    /\ aware = FALSE
    /\ inputs \in KeyInputs
    /\ budget = MaxCalls
    /\ InitState

NextKeys == \E t \in Threads : Step(t) \/ Unlocked(t)

SpecKeys == InitKeys /\ [][NextKeys]_vars

\* The two wrappers that take no lock, maxsize == 0 and maxsize is None, with
\* cache_clear and without expiration or rate limit
InitNoLock ==
    /\ maxsize \in {Unset, 0}
    /\ typed = FALSE
    /\ timeout = 0
    /\ calls = Unset
    /\ period = Unset
    /\ aware = FALSE
    /\ inputs = {A, B}
    /\ budget = MaxCalls
    /\ InitState

NextNoLock ==
    \/ \E t \in Threads : Step(t) \/ Unlocked(t)
    \/ ClearBegin
    \/ ClearEnd

SpecNoLock == InitNoLock /\ [][NextNoLock]_vars

\* memorize() with calls and period each None, 0 or a positive number
InitDeco ==
    /\ maxsize \in {Unset, 0, MaxSize}
    /\ typed = FALSE
    /\ timeout = 0
    /\ calls \in {Unset, 0, Calls}
    /\ period \in {Unset, 0, Period}
    /\ aware \in BOOLEAN
    /\ inputs = {A}
    /\ budget = MaxCalls
    /\ InitState

SpecDeco == InitDeco /\ [][NextRate]_vars

\* The bounded wrapper with expiration, the rate limit and cache_clear
InitLock ==
    /\ maxsize = MaxSize
    /\ typed = FALSE
    /\ timeout = Timeout
    /\ calls = Calls
    /\ period = Period
    /\ aware \in BOOLEAN
    /\ inputs = {A}
    /\ budget = MaxCalls
    /\ InitState

NextLock ==
    \/ \E t \in Threads : Step(t) \/ Limited(t)
    \/ ExpireFire
    \/ ReleaseFire
    \/ Tick
    \/ ClearBegin

SpecLock == InitLock /\ [][NextLock]_vars

\* ------------------------------------------------------------------ claims
KA == make_key(A.args, A.kwds, FALSE)
KB == make_key(B.args, B.kwds, FALSE)
KC == make_key(C.args, C.kwds, FALSE)

Value(v) == [kind |-> "value", val |-> v]

ExpireTimers(S) == {tm \in S : tm.fn = "execute_timeout"}
ReleaseTimers(S) == {tm \in S : tm.fn = "release"}

\* The step is the firing of the timer tm
Fires(tm) == tm \in timers /\ timers' = timers \ {tm}

\* The step is thread t running the code at pc
At(t, pc) == th[t].pc = pc /\ th'[t] # th[t]

\* The step is (a part of) a cache hit of thread t
HitStep(t) ==
    \/ At(t, "lookup") /\ ~Key(t).err /\ Key(t) \in DOMAIN cache
    \/ At(t, "hit")
    \/ At(t, "hit2")

RECURSIVE Sum(_)
Sum(s) == IF s = <<>> THEN 0 ELSE Head(s) + Sum(Tail(s))

\* C1: with maxsize = n > 0 the cache dict never holds more than n entries,
\* whatever calls, timer fires and cache_clear calls are interleaved.
C1_CapacityBound == Bounded => cache_info.currsize <= maxsize

\* C1: the cache of the largest size is at capacity after one more miss than
\* it has room for.
C1_Witness == maxsize = MaxSize /\ cache_len = maxsize /\ misses > maxsize

\* C2: with no timeout, the store of a new key into a cache that holds
\* maxsize entries removes the key accessed least recently (inserted or hit
\* the longest ago) and keeps every other key.
C2_EvictsLeastRecent ==
    [][\A t \in Threads :
        (At(t, "store") /\ Key(t) \notin DOMAIN cache /\ cache_len = maxsize /\ misses' # misses)
        => DOMAIN cache' = (DOMAIN cache \ {Head(recency)}) \cup {Key(t)}]_vars

\* C2: maxsize 2 after the calls A, B, C, B, A: the hit on B kept B, and the
\* last miss evicted C.
C2_Witness ==
    /\ maxsize = 2
    /\ started = 5
    /\ hits = 1
    /\ misses = 4
    /\ recency = <<KB, KA>>
    /\ DOMAIN cache = {KA, KB}

\* C3: a call for a key whose entry its timer has removed is a miss that
\* returns the result of the wrapped callable and counts one miss, in the
\* unbounded and in the bounded cache.
C3_FreshMissAfterExpiry ==
    [][\A t \in Threads :
        (At(t, "store") /\ Key(t) \in expired /\ Key(t) \notin DOMAIN cache)
        => /\ Key(t) \in DOMAIN cache'
           /\ IF Bounded
              THEN ret'[t] = Value(th[t].res) /\ misses' = misses + 1
              ELSE th'[t] = [th[t] EXCEPT !.pc = "miss"]]_vars

\* C4: the firing of a timer whose entry was evicted or cleared leaves the
\* entry stored later under the same key in the cache.
C4_StaleTimerHarmless ==
    [][\A tm \in timers :
        (Fires(tm) /\ tm.fn = "execute_timeout" /\ tm.gone /\ tm.key \in DOMAIN cache)
        => (tm.key \in DOMAIN cache' /\ cache' = cache)]_vars

\* C5: a cache hit starts no expiration timer and changes none, and the
\* firing of the timer started when an entry was stored removes that entry.
C5_DeadlineFixed ==
    [][/\ \A t \in Threads : HitStep(t) => ExpireTimers(timers') = ExpireTimers(timers)
       /\ \A tm \in timers : (Fires(tm) /\ Own(tm)) => tm.key \notin DOMAIN cache']_vars

\* C5: two calls, a miss and a hit on its entry, and then the timer of the
\* entry has fired and removed it.
C5_Witness ==
    /\ started = 2
    /\ hits = 1
    /\ misses = 1
    /\ expired # {}
    /\ cache_len = 0

\* C6: a store that finds its key in the cache (a second caller that missed
\* concurrently) leaves the dict and the timers as they are.
C6_FirstWriterWins ==
    [][\A t \in Threads :
        (At(t, "store") /\ Key(t) \in DOMAIN cache)
        => (cache' = cache /\ links' = links /\ timers' = timers)]_vars

\* C7: the semaphore holds between 0 and calls permits, and no more releases
\* are pending than permits are checked out.
C7_PermitBound ==
    rated => /\ permits \in 0..calls
             /\ Cardinality(ReleaseTimers(timers)) <= calls - permits

\* C7: one call more than there are permits went through a wrapper that is
\* not aware, and every permit is back.
C7_Witness ==
    /\ rated
    /\ ~aware
    /\ hits + misses = calls + 1
    /\ \A t \in Threads : th[t].pc = "idle"
    /\ timers = {}
    /\ permits = calls

\* C8: not aware: the permits acquired during the last period ticks are all
\* still checked out, so at most calls callers are admitted in any period.
C8_PermitHeldForPeriod == (rated /\ ~aware) => permits + Sum(admits) <= calls

\* C8: calls callers were admitted within one period and another one waits
\* before its lookup.
C8_Witness ==
    /\ rated
    /\ ~aware
    /\ maxsize # 0
    /\ Sum(admits) = calls
    /\ \E t \in Threads : th[t].pc = "acquire"

\* C9: aware, with a cache: no caller waits for a permit before its lookup, a
\* hit leaves the semaphore and the timers alone, and the callable is invoked
\* only by the step that acquires one permit.
C9_AwareHitsFree ==
    [][(rated /\ aware /\ maxsize # 0) =>
        \A t \in Threads :
            /\ th[t].pc # "acquire"
            /\ HitStep(t) => (permits' = permits /\ timers' = timers)
            /\ (th[t].pc # "call" /\ th'[t].pc = "call")
                => (th[t].pc = "acquire2" /\ permits' = permits - 1)]_vars

\* C9: a caller is in a cache hit while every permit is checked out.
C9_Witness ==
    /\ rated
    /\ aware
    /\ permits = 0
    /\ \E t \in Threads : th[t].pc \in {"hit", "hit2"}

\* The caller holds a permit whose release it has not scheduled yet
Holding(t) ==
    IF maxsize = 0 THEN th[t].pc \in {"call", "miss", "miss2"}
    ELSE ~aware /\ th[t].pc \in {"lookup", "hit", "hit2"}

\* C10: every permit that is checked out is held by a call that has yet to
\* schedule its release, or has its release pending: none is lost.
C10_PermitsReturn ==
    rated => calls - permits =
                Cardinality(ReleaseTimers(timers)) + Cardinality({t \in Threads : Holding(t)})

\* The key the wrapper builds for the call c
KeyOf(c) == make_key(c.args, c.kwds, typed)

\* The result stored under the key k
Stored(k) == IF Bounded THEN links[cache[k]].result ELSE cache[k]

\* The lookup of thread t ends as a hit that gives the result v
HitsWith(t, v) ==
    IF Bounded THEN ret'[t] = Value(v) /\ hits' = hits + 1
    ELSE th'[t].pc = "hit" /\ th'[t].res = v

\* The lookup of thread t ends as a miss: the callable is next
Misses(t) == th'[t].pc \in {"call", "acquire2"} /\ hits' = hits

\* C11: typed = False: a call f(3.0) made while the entry of f(3) is stored
\* is a hit that gives the result of f(3), and the two calls leave one entry.
C11_SharedEntry ==
    [][(~typed /\ inputs = {C, F3}) =>
        \A t \in Threads :
            /\ (At(t, "lookup") /\ th[t].arg = F3 /\ KeyOf(C) \in DOMAIN cache)
                => HitsWith(t, Stored(KeyOf(C)))
            /\ At(t, "store") => cache_len' = 1]_vars

\* The calls c1 and c2 pass equal values in the same places
SameValues(c1, c2) ==
    /\ Len(c1.args) = Len(c2.args)
    /\ Len(c1.kwds) = Len(c2.kwds)
    /\ \A i \in 1..Len(c1.args) : Elem(c1.args[i]) = Elem(c2.args[i])
    /\ \A i \in 1..Len(c1.kwds) :
        c1.kwds[i][1] = c2.kwds[i][1] /\ Elem(c1.kwds[i][2]) = Elem(c2.kwds[i][2])

\* The dict holds the entry of the call c and nothing else
OnlyStored(c) == DOMAIN cache = {KeyOf(c)}

\* C12: typed = True: while the dict holds only the entry of a call c, a call
\* that passes equal values, one of them of another type, is a miss, and its
\* result is stored as a second entry.
C12_TypedKeysApart ==
    [][typed =>
        \A t \in Threads : \A c \in inputs :
            (SameValues(c, th[t].arg) /\ c # th[t].arg /\ OnlyStored(c))
            => /\ At(t, "lookup") => Misses(t)
               /\ At(t, "store") => cache_len' = 2]_vars

\* C12: typed = True: f(x=3) and f(x=3.0) were two misses and are two entries.
C12_Witness ==
    /\ typed
    /\ inputs = {Kx3, Kxf3}
    /\ DOMAIN cache = {KeyOf(Kx3), KeyOf(Kxf3)}
    /\ cache_len = 2
    /\ hits = 0
    /\ misses = 2

\* The calls that differ in the order of their keywords, or in passing a value
\* by position or by keyword
Resplit == {{Kxy, Kyx}, {P1a, K1a, P1xa}}

\* The dict holds entries of other calls than that of thread t, if any
OthersStored(t) == DOMAIN cache \subseteq {KeyOf(c) : c \in inputs \ {th[t].arg}}

\* C13: typed or not: while the dict holds only entries of calls that order
\* their keywords differently, or pass a value by keyword that this call
\* passes by position (or the reverse), the call is a miss and its result is
\* stored as one more entry.
C13_KeywordsApart ==
    [][(inputs \in Resplit) =>
        \A t \in Threads :
            OthersStored(t)
            => /\ At(t, "lookup") => Misses(t)
               /\ At(t, "store") =>
                    (Key(t) \in DOMAIN cache' /\ (~full => cache_len' = cache_len + 1))]_vars

\* C13: f(1, "a"), f(1, x="a") and f(1, "x", "a") were three misses and are
\* three entries of the unbounded cache.
C13_Witness ==
    /\ inputs = {P1a, K1a, P1xa}
    /\ DOMAIN cache = {KeyOf(P1a), KeyOf(K1a), KeyOf(P1xa)}
    /\ cache_len = 3
    /\ hits = 0
    /\ misses = 3

\* The call of thread t returns a value in this step
Returns(t) == th[t].pc # "idle" /\ ret'[t].kind = "value"

\* C14: maxsize = 0: the dict stays empty and hits stays 0, a call returns only
\* from the statements that follow the callable, and each call that returns
\* a value leaves misses one higher.
C14_DisabledCache ==
    [][maxsize = 0 =>
        /\ cache_len' = 0
        /\ hits' = 0
        /\ \A t \in Threads :
            /\ th'[t].pc \notin {"lookup", "hit", "hit2", "store"}
            /\ Returns(t) => (th[t].pc = "miss2" /\ misses' = misses + 1)]_vars

\* The step is cache_clear emptying the dict
Clears == cache' = <<>> /\ started' = started + 1 /\ th' = th

\* C15: maxsize unset, no timeout: the store of a result adds the key of the
\* call to the keys held and changes nothing else of them, only cache_clear
\* takes a key out, and a call with a key that is held is a hit that gives the
\* stored result.
C15_UnboundedKeeps ==
    [][(maxsize = Unset /\ timeout = 0) =>
        /\ \A t \in Threads :
            /\ At(t, "store") => DOMAIN cache' = DOMAIN cache \cup {Key(t)}
            /\ (At(t, "lookup") /\ Key(t) \in DOMAIN cache)
                => (th'[t].pc = "hit" /\ th'[t].res = cache[Key(t)])
            /\ (At(t, "hit2") /\ ~Clears) => ret'[t] = Value(th[t].res)
        /\ (DOMAIN cache \subseteq DOMAIN cache') \/ Clears]_vars

\* C15: three calls with two keys: the dict holds both keys, and the call
\* that repeated a key was a hit.
C15_Witness ==
    /\ maxsize = Unset
    /\ timeout = 0
    /\ DOMAIN cache = {KA, KB}
    /\ hits = 1
    /\ misses = 2
    /\ \A t \in Threads : th[t].pc = "idle"

\* The step is the return of cache_clear
ClearReturns == IF Bounded THEN Clears ELSE clearing /\ ~clearing'

CacheState == <<cache, links, root, full, hits, misses, recency>>

\* The callable raises in the call of thread t
Raises(t) == At(t, "call") /\ ret'[t].kind = "raised"

\* C17: a miss changes nothing of the cache and starts no expiration timer on
\* its way to the callable, and when the callable raises the call ends with
\* that error, the cache, the counters and the timers are as they were, and
\* the thread does not hold the lock.
C17_RaiseLeavesCache ==
    [][\A t \in Threads :
        /\ ((At(t, "lookup") /\ Misses(t)) \/ At(t, "acquire2"))
            => (CacheState' = CacheState /\ ExpireTimers(timers') = ExpireTimers(timers))
        /\ Raises(t)
            => /\ th'[t] = IdleTh
               /\ CacheState' = CacheState
               /\ timers' = timers
               /\ lock' # t]_vars

\* C17: the second call raised: the entry and the timer of the first call are
\* all there is, and one miss was counted.
C17_Witness ==
    /\ started = 2
    /\ \E t \in Threads : ret[t].kind = "raised"
    /\ cache_len = 1
    /\ Cardinality(timers) = 1
    /\ misses = 1
    /\ hits = 0
    /\ lock = "free"

\* The argument was supplied
Given(x) == x # Unset

\* C18: one of calls and period supplied without the other: memorize fails
\* and there is no wrapper; both supplied: the wrapper limits the rate;
\* neither: the wrapper is there and no caller waits for a permit.
C18_BothOrNeither ==
    /\ (Given(calls) # Given(period)) => made # "wrapper"
    /\ (Given(calls) /\ Given(period)) => (made = "wrapper" /\ rated)
    /\ (~Given(calls) /\ ~Given(period))
        => (made = "wrapper" /\ \A t \in Threads : th[t].pc \notin {"acquire", "acquire2"})

\* The links from cur on to the root r, following NEXT, at most n of them
RECURSIVE Walk(_, _, _, _)
Walk(ls, r, cur, n) ==
    IF cur = r \/ n = 0 THEN <<>>
    ELSE <<cur>> \o Walk(ls, r, ls[cur].next, n - 1)

\* The links of the list, oldest first, and their keys
ListLinks(ls, r) == Walk(ls, r, ls[r].next, Cardinality(DOMAIN ls))
ListKeys(ls, r) == [i \in 1..Len(ListLinks(ls, r)) |-> ls[ListLinks(ls, r)[i]].key]

\* The lookup of thread t is a hit of the bounded cache
BoundedHit(t) == Bounded /\ At(t, "lookup") /\ ~Key(t).err /\ Key(t) \in DOMAIN cache

Outside(t) == th[t].pc \in {"acquire", "acquire2", "call"}

\* C20: a thread that waits for a permit or runs the callable does not hold
\* the lock, and while it does another caller's lookup (its hit, when the key
\* is stored), the removal by a timer that is due and cache_clear can all
\* take their step.
C20_LockOnlyForUpdates ==
    \A t \in Threads :
        Outside(t)
        => /\ lock # t
           /\ \A u \in Threads \ {t} : th[u].pc = "lookup" => ENABLED Lookup(u)
           /\ \A tm \in ExpireTimers(timers) : Due(tm) => ENABLED execute_timeout(tm)
           /\ started < budget => ENABLED ClearBegin

\* C20: one caller is inside the callable and the other waits for a permit,
\* no permit is left, and the timer of a stored entry is due.
C20_Witness ==
    /\ \E t, u \in Threads : th[t].pc = "call" /\ th[u].pc \in {"acquire", "acquire2"}
    /\ permits = 0
    /\ \E tm \in ExpireTimers(timers) : Due(tm) /\ Own(tm)

\* The links of the list other than the root
Entries == {ListLinks(links, root)[i] : i \in 1..Len(ListLinks(links, root))}

\* PREV and NEXT of every link agree, and NEXT from the root leads through
\* every link back to the root
Circular ==
    /\ \A l \in DOMAIN links :
        /\ links[l].next \in DOMAIN links
        /\ links[l].prev \in DOMAIN links
        /\ links[links[l].next].prev = l
        /\ links[links[l].prev].next = l
    /\ Entries = DOMAIN links \ {root}
    /\ Len(ListLinks(links, root)) = Cardinality(Entries)

\* C21: bounded: the list is circular and doubly linked from the root, and its
\* other links are the values of the dict: every cached key has its one link,
\* the key of every link is cached and maps to that link, and there are as
\* many links as cached keys.
C21_ListMatchesDict ==
    Bounded =>
        /\ Circular
        /\ \A k \in DOMAIN cache : cache[k] \in Entries /\ links[cache[k]].key = k
        /\ \A l \in Entries : links[l].key \in DOMAIN cache /\ cache[links[l].key] = l
        /\ Cardinality(Entries) = cache_len

\* How a call may end: with a value, with the error of the callable or with
\* the TypeError of the key construction
Outcomes == {"none", "value", "raised", "TypeError"}

\* C22: a call ends with a value or with an error of the callable or of the
\* key construction, and the store of the bounded cache always returns the
\* result the callable computed: its eviction and insertion raise nothing.
C22_StoreNeverFails ==
    [][\A t \in Threads :
        /\ ret'[t].kind \in Outcomes
        /\ (Bounded /\ At(t, "store")) => ret'[t] = Value(th[t].res)]_vars

\* The calls counted
Counted == hits + misses

\* C23: in every mode, the step in which a call returns a value leaves hits +
\* misses one higher, the return of cache_clear leaves both at 0 and no other
\* step changes their sum: after k calls that returned a value since the last
\* reset, hits + misses = k.
C23_CountsEveryCall ==
    [][IF \E t \in Threads : Returns(t) THEN Counted' = Counted + 1
       ELSE IF ClearReturns THEN hits' = 0 /\ misses' = 0
       ELSE Counted' = Counted]_vars

====
